---- MODULE Spec2Model ----
(***************************************************************************)
(* Model of the fretboard-trainer repository: the two command line         *)
(* programs src/fretboard_trainer.py (BPM metronome, two sounds) and       *)
(* src/fingerboard_trainer.py (seconds-per-tick, one sound).               *)
(*                                                                         *)
(* Strings of the programs (command line tokens, note names, lines typed   *)
(* by the user) are sequences of one-character strings, so that literal    *)
(* comparison, splitting at "=", prefix matching, strip() and lower() are  *)
(* computed and not assumed.  An optional value (Python None or a value)   *)
(* is the empty sequence or a one-element sequence.                        *)
(*                                                                         *)
(* Time is counted in ticks of 1/TicksPerSecond second, from the moment    *)
(* the process starts; time.monotonic() and time.perf_counter() read the   *)
(* same clock (CLOCK_MONOTONIC), as they do on Linux, the platform the     *)
(* programs select their audio driver for.                                 *)
(***************************************************************************)
EXTENDS Integers, Sequences, FiniteSets, TLC

\* ------------------------------------------------------------------------
\* Bounds of the model
\* ------------------------------------------------------------------------
\* longest command line (number of tokens after the program name)
MaxArgs == 2
\* the clock stops at this many ticks in auto mode
MaxTime == 4
\* the clock stops at this many ticks in preset mode (seven passes over six
\* strings of four beats take 168 periods)
MaxPresetTime == 170
\* the loop is stalled at most this many ticks past the deadline of the
\* next beat (a stall of MaxLate ticks at period 1 misses MaxLate deadlines)
MaxLate == 2
\* displays of preset mode in fingerboard_trainer.py, whose tick may be 0 s
MaxShown == 44

\* ------------------------------------------------------------------------
\* Optional values and strings
\* ------------------------------------------------------------------------
None == << >>
Some(v) == << v >>
Get(o) == o[1]

Max(a, b) == IF a >= b THEN a ELSE b

IsPrefixOf(p, s) == Len(p) <= Len(s) /\ SubSeq(s, 1, Len(p)) = p

\* position of the first "=" of a token, 0 when it has none
EqPos(tok) ==
    IF \E k \in 1..Len(tok) : tok[k] = "="
    THEN CHOOSE k \in 1..Len(tok) :
            tok[k] = "=" /\ \A m \in 1..(k - 1) : tok[m] # "="
    ELSE 0

Digits == <<"0", "1", "2", "3", "4", "5", "6", "7", "8", "9">>
IsDigit(c) == \E d \in 1..10 : Digits[d] = c
DigitValue(c) == (CHOOSE d \in 1..10 : Digits[d] = c) - 1

\* int(text) for an unsigned decimal literal; None stands for ValueError
RECURSIVE DecimalValue(_)
DecimalValue(text) ==
    IF Len(text) = 0 THEN 0
    ELSE 10 * DecimalValue(SubSeq(text, 1, Len(text) - 1))
           + DigitValue(text[Len(text)])
ParseInt(text) ==
    IF Len(text) > 0 /\ \A k \in 1..Len(text) : IsDigit(text[k])
    THEN Some(DecimalValue(text))
    ELSE None

\* ------------------------------------------------------------------------
\* Module constants of the programs
\* ------------------------------------------------------------------------
STRINGS == <<1, 2, 3, 4, 5, 6>>
NOTES == << <<"C">>, <<"C", "#">>, <<"D">>, <<"D", "#">>, <<"E">>, <<"F">>,
            <<"F", "#">>, <<"G">>, <<"G", "#">>, <<"A">>, <<"A", "#">>, <<"B">> >>
NOTES_NATURAL == << <<"C">>, <<"D">>, <<"E">>, <<"F">>, <<"G">>, <<"A">>, <<"B">> >>
DEFAULT_BPM == 180
DEFAULT_TIME == 1
\* one tick is the beat period of the default tempo
TicksPerSecond == DEFAULT_BPM \div 60

Programs == {"fretboard", "fingerboard"}

\* ------------------------------------------------------------------------
\* Command lines
\* ------------------------------------------------------------------------
OPT_AUTO == <<"-", "-", "a", "u", "t", "o">>
OPT_ACCIDENTALS == <<"-", "-", "a", "c", "c", "i", "d", "e", "n", "t", "a", "l", "s">>
OPT_STRING == <<"-", "-", "s", "t", "r", "i", "n", "g">>
OPT_NOTE == <<"-", "-", "n", "o", "t", "e">>
OPT_PRESET == <<"-", "-", "p", "r", "e", "s", "e", "t">>
OptionStrings == {OPT_AUTO, OPT_ACCIDENTALS, OPT_STRING, OPT_NOTE, OPT_PRESET}

\* the tokens command lines are made of
Tokens ==
    { OPT_PRESET, OPT_AUTO, OPT_ACCIDENTALS, OPT_STRING, OPT_NOTE,
      <<"3">>, <<"0">>,
      OPT_AUTO \o <<"=", "9", "0">>,
      OPT_STRING \o <<"=", "3">>,
      OPT_NOTE \o <<"=", "C">>,
      OPT_NOTE \o <<"=">> }

CommandLines == UNION { [1..k -> Tokens] : k \in 0..MaxArgs }

\* ------------------------------------------------------------------------
\* argparse.ArgumentParser.parse_args, for the five options the parsers
\* declare (tokens with a single dash, "--help" and tokens with a blank are
\* not among Tokens)
\* ------------------------------------------------------------------------
ArgToken == [kind |-> "A", opt |-> << >>, explicit |-> None]

\* option strings a (possibly abbreviated) option name stands for
OptionMatches(name) == {o \in OptionStrings : IsPrefixOf(name, o)}

\* _parse_optional: "A" an argument, "O" an option (with the value given
\* after "=", if any), "E" an ambiguous or unknown option
ClassifyToken(tok) ==
    IF Len(tok) = 0 \/ tok[1] # "-" \/ Len(tok) = 1 THEN ArgToken
    ELSE IF tok \in OptionStrings
    THEN [kind |-> "O", opt |-> tok, explicit |-> None]
    ELSE LET e == EqPos(tok)
             name == IF e = 0 THEN tok ELSE SubSeq(tok, 1, e - 1)
             explicit == IF e = 0 THEN None
                         ELSE Some(SubSeq(tok, e + 1, Len(tok)))
             found == OptionMatches(name)
         IN  IF Cardinality(found) = 1
             THEN [kind |-> "O", opt |-> CHOOSE o \in found : TRUE,
                   explicit |-> explicit]
             ELSE [kind |-> "E", opt |-> << >>, explicit |-> None]

EmptyNamespace ==
    [auto |-> None, accidentals |-> FALSE, string |-> None, note |-> None,
     preset |-> None]
UsageError == [ok |-> FALSE, args |-> EmptyNamespace]

\* consume_optional over the tokens from position i on; const is the value
\* of a bare --auto or --preset
RECURSIVE ParseFrom(_, _, _, _)
ParseFrom(argv, i, ns, const) ==
    IF i > Len(argv) THEN [ok |-> TRUE, args |-> ns]
    ELSE
    LET c == ClassifyToken(argv[i])
        nextIsArg == i < Len(argv) /\ ClassifyToken(argv[i + 1]).kind = "A"
        \* the text of the option's value, if it has one
        text == IF c.explicit # None THEN c.explicit
                ELSE IF nextIsArg THEN Some(argv[i + 1]) ELSE None
        used == IF c.explicit = None /\ nextIsArg THEN 2 ELSE 1
    IN
    IF c.kind # "O" THEN UsageError
    ELSE IF c.opt = OPT_ACCIDENTALS
    THEN IF c.explicit # None THEN UsageError
         ELSE ParseFrom(argv, i + 1, [ns EXCEPT !.accidentals = TRUE], const)
    ELSE IF c.opt = OPT_NOTE
    THEN IF text = None THEN UsageError
         ELSE ParseFrom(argv, i + used, [ns EXCEPT !.note = text], const)
    ELSE
    LET val == IF text = None THEN None ELSE ParseInt(Get(text)) IN
    IF text # None /\ val = None THEN UsageError
    ELSE IF c.opt = OPT_STRING
    THEN IF text = None THEN UsageError
         ELSE ParseFrom(argv, i + used, [ns EXCEPT !.string = val], const)
    ELSE IF c.opt = OPT_AUTO
    THEN ParseFrom(argv, i + used,
            [ns EXCEPT !.auto = IF text = None THEN Some(const) ELSE val], const)
    ELSE ParseFrom(argv, i + used,
            [ns EXCEPT !.preset = IF text = None THEN Some(const) ELSE val], const)

conflicting_flags == {OPT_AUTO, OPT_ACCIDENTALS, OPT_STRING, OPT_NOTE}
InConflictingFlags(tok) == tok \in conflicting_flags
used_conflicts(argv) == SelectSeq(argv, InConflictingFlags)

DefaultTempo(prog) == IF prog = "fretboard" THEN DEFAULT_BPM ELSE DEFAULT_TIME

\* parse_args of either program: the namespace, or a usage error (exit 2)
parse_args(prog, argv) ==
    LET r == ParseFrom(argv, 1, EmptyNamespace, DefaultTempo(prog)) IN
    IF r.ok /\ r.args.preset # None /\ used_conflicts(argv) # << >>
    THEN UsageError
    ELSE r

\* ------------------------------------------------------------------------
\* Lines typed in manual mode: str.strip() and str.lower()
\* ------------------------------------------------------------------------
Whitespace == {" ", "\t"}

\* str.strip(): without the leading and trailing whitespace
Strip(text) ==
    LET inked == {k \in 1..Len(text) : text[k] \notin Whitespace} IN
    IF inked = {} THEN << >>
    ELSE SubSeq(text,
                CHOOSE a \in inked : \A k \in inked : a <= k,
                CHOOSE b \in inked : \A k \in inked : b >= k)

UpperCase == <<"Q", "U", "I", "T", "E", "X">>
LowerCase == <<"q", "u", "i", "t", "e", "x">>
LowerChar(c) ==
    IF \E k \in 1..Len(UpperCase) : UpperCase[k] = c
    THEN LowerCase[CHOOSE k \in 1..Len(UpperCase) : UpperCase[k] = c]
    ELSE c
\* str.lower()
Lower(text) == [k \in 1..Len(text) |-> LowerChar(text[k])]

QuitWords == { <<"q">>, <<"q", "u", "i", "t">>, <<"e", "x", "i", "t">> }

\* run_manual: choice = input("> ").strip().lower(); choice in {...}
IsQuitNoStrip(text) == Lower(text) \in QuitWords
IsQuit(text) == Lower(Strip(text)) \in QuitWords

\* the lines the user may type
Lines ==
    { << >>, <<" ">>, <<"q">>, <<"Q", "\t">>, <<" ", "q">>,
      <<"q", " ", "q">>, <<"x">>,
      <<"Q", "u", "I", "t">>, <<" ", "Q", "U", "I", "T", " ">>,
      <<"q", "u", "i">>, <<"e", "x", "i", "t">>, <<"\t", "E", "X", "I", "T">>,
      <<"e", "x", "i", "t", " ", "x">> }

\* ------------------------------------------------------------------------
\* Prompt chooser
\* ------------------------------------------------------------------------
\* Python truth value of an optional int / an optional str
TruthyInt(o) == o # None /\ Get(o) # 0
TruthyStr(o) == o # None /\ Get(o) # << >>

Range(seq) == {seq[k] : k \in 1..Len(seq)}

build_note_pool_unfiltered(args) ==
    IF args.accidentals THEN NOTES ELSE NOTES_NATURAL
build_note_pool(args) ==
    IF TruthyStr(args.note) THEN << Get(args.note) >>
    ELSE IF args.accidentals THEN NOTES ELSE NOTES_NATURAL

\* the strings  args.string or random.choice(STRINGS)  may give
StringChoicesUnfiltered(args) == Range(STRINGS)
StringChoices(args) ==
    IF TruthyInt(args.string) THEN {Get(args.string)} ELSE Range(STRINGS)

\* the prompts choose_prompt may return
choose_prompt(args) ==
    { [string |-> s, note |-> n] :
        s \in StringChoices(args), n \in Range(build_note_pool(args)) }

\* ------------------------------------------------------------------------
\* Tempo, deadlines and the preset sequence
\* ------------------------------------------------------------------------
\* 0.001 s, the smallest period of run_auto and run_preset, in whole ticks
MinPeriod == 0

\* period = max(0.001, 60.0 / bpm), in ticks; the tempi of Tokens and the
\* default give whole numbers of ticks.  bpm = 0 raises ZeroDivisionError.
FretPeriod(bpm) == Max(MinPeriod, (60 * TicksPerSecond) \div bpm)

\* buffer = max(0, seconds), in ticks
FingerBuffer(seconds) == Max(0, seconds) * TicksPerSecond

\* target = start + beat_idx * period
Target(t0, k, per) == t0 + k * per

\* the wait of a beat is over (remaining <= 0, or the fine wait loop saw
\* now >= target)
Due(t, target) == t >= target

\* the sound of sub-beat j
BeatSound(b) == IF b = 0 THEN "downbeat" ELSE "secondary"

\* sub-beat j of run_auto picks a new prompt
PicksPromptAlways(b) == TRUE
PicksPrompt(b) == b = 0

\* for j in range(4), for i in range(1, 7)
BeatsPerCycle == 4
LastString == 6

\* index = 3, the first note of run_preset
PresetStartIndex == 3
NextIndexByFive(idx) == (idx + 5) % Len(NOTES_NATURAL)
NextIndex(idx) == (idx + 4) % Len(NOTES_NATURAL)
NoteAt(idx) == NOTES_NATURAL[idx + 1]

\* ------------------------------------------------------------------------
\* Audio sample files checked when the module is loaded
\* ------------------------------------------------------------------------
\* the first required file that is missing, if any
MissingAssetDownbeatOnly(p, down, sec) ==
    IF ~down THEN Some("downbeat") ELSE None
MissingAsset(p, down, sec) ==
    IF ~down THEN Some("downbeat")
    ELSE IF p = "fretboard" /\ ~sec THEN Some("secondary")
    ELSE None

\* ------------------------------------------------------------------------
\* State
\* ------------------------------------------------------------------------
VARIABLES
    prog,               \* which of the two scripts runs
    downbeat_exists,    \* os.path.exists(DOWNBEAT_PATH)
    secondary_exists,   \* os.path.exists(SECONDARY_BEAT_PATH)
    argv,               \* sys.argv[1:]
    pc,                 \* where the process is
    args,               \* the namespace parse_args returned
    mode,               \* the run mode main entered, "none" before
    exit_code,          \* None while running
    stdout,             \* kinds of messages printed so far
    mixer,              \* "uninit", "init", "quit"
    downbeat_ready,     \* downbeat = Ding(DOWNBEAT_PATH) has returned
    close_calls,        \* calls of downbeat.close()
    play_errors,        \* calls of Ding.play that raised
    now,                \* the clock
    start, period, beat_idx, j,      \* locals of run_auto / run_preset
    i, index, n,                     \* locals of run_preset
    next_tick, buffer,               \* locals of fingerboard_trainer.py
    prompt,             \* (s, n) returned by the last choose_prompt
    typed,              \* the last line input() returned in run_manual
    screen,             \* what the terminal shows
    sound,              \* the last sound started
    picked,             \* the last loop iteration called choose_prompt
    last_emit,          \* the clock when the last beat was emitted
    shown               \* displays of preset mode so far

env == <<prog, downbeat_exists, secondary_exists, argv>>
proc == <<pc, args, mode, exit_code, stdout, mixer, downbeat_ready, close_calls,
         play_errors>>
timing == <<start, period, beat_idx, j, next_tick, buffer, last_emit>>
preset == <<i, index, n, shown>>
display == <<prompt, screen, sound, picked>>
vars == <<env, proc, now, timing, preset, display, typed>>

Init ==
    /\ prog \in Programs
    /\ downbeat_exists \in BOOLEAN
    /\ secondary_exists \in (IF prog = "fretboard" THEN BOOLEAN ELSE {FALSE})
    /\ argv \in CommandLines
    /\ pc = "import"
    /\ args = EmptyNamespace
    /\ mode = "none"
    /\ exit_code = None
    /\ stdout = {}
    /\ mixer = "uninit"
    /\ downbeat_ready = FALSE
    /\ close_calls = 0
    /\ play_errors = 0
    /\ now = 0
    /\ start = 0 /\ period = 0 /\ beat_idx = 0 /\ j = 0
    /\ i = 0 /\ index = 0 /\ n = << >>
    /\ next_tick = 0 /\ buffer = 0
    /\ prompt = None
    /\ typed = None
    /\ screen = None
    /\ sound = "none"
    /\ picked = FALSE
    /\ last_emit = None
    /\ shown = 0

\* Ding.close: pygame.mixer.quit(); pygame.quit().  An Exception either
\* call raises is swallowed, so close returns normally in every case.
Close ==
    /\ close_calls' = close_calls + 1
    /\ mixer' = "quit"

\* the process ends with this exit status; closing tells whether the
\* finally clause of main runs on the way out
Exit(code, messages, closing) ==
    /\ pc' = "exited"
    /\ exit_code' = Some(code)
    /\ stdout' = stdout \cup messages
    /\ IF closing THEN Close ELSE UNCHANGED <<close_calls, mixer>>

\* ------------------------------------------------------------------------
\* Start-up: module level code, then main up to the dispatch
\* ------------------------------------------------------------------------
\* the os.path.exists checks made while the module is loaded
Import ==
    /\ pc = "import"
    /\ LET missing == MissingAsset(prog, downbeat_exists, secondary_exists) IN
       IF missing # None
       THEN Exit(1, {"file_not_found"}, FALSE)
            /\ UNCHANGED <<args, mode, downbeat_ready, play_errors>>
       ELSE /\ pc' = "parse_args"
            /\ UNCHANGED <<args, mode, exit_code, stdout, mixer,
                           downbeat_ready, close_calls, play_errors>>
    /\ UNCHANGED <<env, now, timing, preset, display, typed>>

\* args = parse_args(); p.error exits with status 2
ParseArgs ==
    /\ pc = "parse_args"
    /\ LET r == parse_args(prog, argv) IN
       IF r.ok
       THEN /\ args' = r.args
            /\ pc' = "init_downbeat"
            /\ UNCHANGED <<mode, exit_code, stdout, mixer, downbeat_ready,
                           close_calls, play_errors>>
       ELSE Exit(2, {"usage"}, FALSE)
            /\ UNCHANGED <<args, mode, downbeat_ready, play_errors>>
    /\ UNCHANGED <<env, now, timing, preset, display, typed>>

\* downbeat = Ding(DOWNBEAT_PATH)
InitDownbeat ==
    /\ pc = "init_downbeat"
    /\ downbeat_ready' = TRUE
    /\ mixer' = "init"
    /\ pc' = IF prog = "fretboard" THEN "init_secondary" ELSE "dispatch"
    /\ UNCHANGED <<args, mode, exit_code, stdout, close_calls, play_errors>>
    /\ UNCHANGED <<env, now, timing, preset, display, typed>>

\* Ding(DOWNBEAT_PATH) raises (no audio device: the mixer stays down; a
\* file that is no sound: the mixer is up); main has no handler around it
InitDownbeatFails ==
    /\ pc = "init_downbeat"
    /\ UNCHANGED downbeat_ready
    /\ mixer' \in {"uninit", "init"}
    /\ pc' = "exited"
    /\ exit_code' = Some(1)
    /\ stdout' = stdout \cup {"traceback"}
    /\ UNCHANGED <<args, mode, close_calls, play_errors>>
    /\ UNCHANGED <<env, now, timing, preset, display, typed>>

\* secondary_beat = Ding(SECONDARY_BEAT_PATH), fretboard_trainer.py only
InitSecondary ==
    /\ pc = "init_secondary"
    /\ pc' = "dispatch"
    /\ UNCHANGED <<args, mode, exit_code, stdout, mixer, downbeat_ready,
                   close_calls, play_errors>>
    /\ UNCHANGED <<env, now, timing, preset, display, typed>>

\* Ding(SECONDARY_BEAT_PATH) raises, outside the try of main
InitSecondaryFails ==
    /\ pc = "init_secondary"
    /\ Exit(1, {"traceback"}, FALSE)
    /\ UNCHANGED <<args, mode, downbeat_ready, play_errors>>
    /\ UNCHANGED <<env, now, timing, preset, display, typed>>

\* ------------------------------------------------------------------------
\* The dispatch of main and the entry of the run mode it calls
\* ------------------------------------------------------------------------
ModeOf(a) ==
    IF a.preset # None THEN "preset"
    ELSE IF a.auto # None THEN "auto" ELSE "manual"

Tempo(a) == IF a.preset # None THEN Get(a.preset) ELSE Get(a.auto)

\* run_manual up to its loop
EnterManual ==
    /\ pc = "dispatch"
    /\ ModeOf(args) = "manual"
    /\ mode' = "manual"
    /\ pc' = "run_manual"
    /\ stdout' = stdout \cup {"manual_help"}
    /\ UNCHANGED <<args, exit_code, mixer, downbeat_ready, close_calls,
                   play_errors>>
    /\ UNCHANGED <<env, now, timing, preset, display, typed>>

\* run_auto / run_preset up to their loops
EnterTimed ==
    /\ pc = "dispatch"
    /\ ModeOf(args) # "manual"
    /\ ~(prog = "fretboard" /\ Tempo(args) = 0)
    /\ mode' = ModeOf(args)
    /\ pc' = IF ModeOf(args) = "preset" THEN "run_preset" ELSE "run_auto"
    /\ IF prog = "fretboard"
       THEN /\ period' = FretPeriod(Tempo(args))
            /\ start' = now
            /\ beat_idx' = 0
            /\ j' = 0
            /\ UNCHANGED <<next_tick, buffer>>
       ELSE /\ buffer' = FingerBuffer(Tempo(args))
            /\ next_tick' = now
            /\ UNCHANGED <<period, start, beat_idx, j>>
    /\ IF ModeOf(args) = "preset"
       THEN /\ index' = PresetStartIndex
            /\ n' = NoteAt(PresetStartIndex)
            /\ i' = 1
       ELSE UNCHANGED <<i, index, n>>
    /\ UNCHANGED <<args, exit_code, stdout, mixer, downbeat_ready, close_calls,
                   play_errors>>
    /\ UNCHANGED <<env, now, last_emit, shown, display, typed>>

\* period = 60.0 / 0 raises ZeroDivisionError inside the try of main
EnterTimedFails ==
    /\ pc = "dispatch"
    /\ ModeOf(args) # "manual"
    /\ prog = "fretboard" /\ Tempo(args) = 0
    /\ mode' = ModeOf(args)
    /\ Exit(1, {"traceback"}, TRUE)
    /\ UNCHANGED <<args, downbeat_ready, play_errors>>
    /\ UNCHANGED <<env, now, timing, preset, display, typed>>

\* ------------------------------------------------------------------------
\* The clock
\* ------------------------------------------------------------------------
NextDeadline ==
    IF prog = "fretboard" THEN Target(start, beat_idx, period) ELSE next_tick

Tick ==
    /\ pc \in {"run_auto", "run_preset"}
    /\ now < (IF pc = "run_preset" THEN MaxPresetTime ELSE MaxTime)
    /\ now < NextDeadline + MaxLate
    /\ now' = now + 1
    /\ UNCHANGED <<env, proc, timing, preset, display, typed>>

\* ------------------------------------------------------------------------
\* fretboard_trainer.py: run_auto and run_preset, one beat per step
\* ------------------------------------------------------------------------
Shows(str, note, beat) == Some([string |-> str, note |-> note, beat |-> beat])

\* one pass of  for j in range(4)  of run_auto: the wait, the sound, visual
AutoBeat ==
    /\ pc = "run_auto" /\ prog = "fretboard"
    /\ Due(now, Target(start, beat_idx, period))
    /\ \E p \in (IF PicksPrompt(j) THEN choose_prompt(args) ELSE {Get(prompt)}) :
          /\ prompt' = Some(p)
          /\ screen' = Shows(p.string, p.note, Some(j))
    /\ picked' = PicksPrompt(j)
    /\ sound' = BeatSound(j)
    /\ last_emit' = Some(now)
    /\ beat_idx' = beat_idx + 1
    /\ j' = (j + 1) % BeatsPerCycle
    /\ UNCHANGED <<env, proc, now, start, period, next_tick, buffer, preset, typed>>

\* the same pass when Ding.play raises: nothing in run_auto or main handles
\* it but the finally clause
AutoBeatPlayFails ==
    /\ pc = "run_auto" /\ prog = "fretboard"
    /\ Due(now, Target(start, beat_idx, period))
    /\ \E p \in (IF PicksPrompt(j) THEN choose_prompt(args) ELSE {Get(prompt)}) :
          prompt' = Some(p)
    /\ picked' = PicksPrompt(j)
    /\ Exit(1, {"traceback"}, TRUE)
    /\ play_errors' = play_errors + 1
    /\ UNCHANGED <<args, mode, downbeat_ready, screen, sound>>
    /\ UNCHANGED <<env, now, timing, preset, typed>>

\* one pass of  for j in range(4)  of run_preset, with the end of the
\* for i loop and the step of index when it was the last of the pass
PresetBeat ==
    /\ pc = "run_preset" /\ prog = "fretboard"
    /\ Due(now, Target(start, beat_idx, period))
    /\ sound' = BeatSound(j)
    /\ screen' = Shows(i, n, Some(j))
    /\ picked' = FALSE
    /\ last_emit' = Some(now)
    /\ beat_idx' = beat_idx + 1
    /\ shown' = shown + 1
    /\ j' = (j + 1) % BeatsPerCycle
    /\ i' = IF j + 1 < BeatsPerCycle THEN i
            ELSE IF i = LastString THEN 1 ELSE i + 1
    /\ index' = IF j + 1 = BeatsPerCycle /\ i = LastString
                THEN NextIndex(index) ELSE index
    /\ n' = NoteAt(index')
    /\ UNCHANGED <<env, proc, now, start, period, next_tick, buffer, prompt, typed>>

PresetBeatPlayFails ==
    /\ pc = "run_preset" /\ prog = "fretboard"
    /\ Due(now, Target(start, beat_idx, period))
    /\ play_errors' = play_errors + 1
    /\ Exit(1, {"traceback"}, TRUE)
    /\ UNCHANGED <<args, mode, downbeat_ready>>
    /\ UNCHANGED <<env, now, timing, preset, display, typed>>

\* ------------------------------------------------------------------------
\* fingerboard_trainer.py: run_auto and run_preset, one tick per step
\* ------------------------------------------------------------------------
\* one pass of the loop of run_auto; its closing sleep is the wait of the
\* next pass
FingerAutoTick ==
    /\ pc = "run_auto" /\ prog = "fingerboard"
    /\ Due(now, next_tick)
    /\ \E p \in choose_prompt(args) :
          /\ prompt' = Some(p)
          /\ screen' = Shows(p.string, p.note, None)
    /\ picked' = TRUE
    /\ sound' = "downbeat"
    /\ next_tick' = next_tick + buffer
    /\ UNCHANGED <<env, proc, now, start, period, beat_idx, j, buffer,
                   last_emit, preset, typed>>

FingerAutoPlayFails ==
    /\ pc = "run_auto" /\ prog = "fingerboard"
    /\ Due(now, next_tick)
    /\ \E p \in choose_prompt(args) :
          /\ prompt' = Some(p)
          /\ screen' = Shows(p.string, p.note, None)
    /\ picked' = TRUE
    /\ Exit(1, {"traceback"}, TRUE)
    /\ play_errors' = play_errors + 1
    /\ UNCHANGED <<args, mode, downbeat_ready, sound>>
    /\ UNCHANGED <<env, now, timing, preset, typed>>

\* one pass of  for i in range(1, 7)  of run_preset
FingerPresetTick ==
    /\ pc = "run_preset" /\ prog = "fingerboard"
    /\ shown < MaxShown
    /\ Due(now, next_tick)
    /\ screen' = Shows(i, n, None)
    /\ picked' = FALSE
    /\ sound' = "downbeat"
    /\ shown' = shown + 1
    /\ next_tick' = next_tick + buffer
    /\ i' = IF i = LastString THEN 1 ELSE i + 1
    /\ index' = IF i = LastString THEN NextIndex(index) ELSE index
    /\ n' = NoteAt(index')
    /\ UNCHANGED <<env, proc, now, start, period, beat_idx, j, buffer,
                   last_emit, prompt, typed>>

FingerPresetPlayFails ==
    /\ pc = "run_preset" /\ prog = "fingerboard"
    /\ shown < MaxShown
    /\ Due(now, next_tick)
    /\ screen' = Shows(i, n, None)
    /\ picked' = FALSE
    /\ shown' = shown + 1
    /\ Exit(1, {"traceback"}, TRUE)
    /\ play_errors' = play_errors + 1
    /\ UNCHANGED <<args, mode, downbeat_ready, sound, prompt, i, index, n>>
    /\ UNCHANGED <<env, now, timing, typed>>

\* ------------------------------------------------------------------------
\* run_manual (the same in both programs)
\* ------------------------------------------------------------------------
\* clear(); s, n = choose_prompt(args); print; then input() blocks
ManualPrompt ==
    /\ pc = "run_manual"
    /\ \E p \in choose_prompt(args) :
          /\ prompt' = Some(p)
          /\ screen' = Shows(p.string, p.note, None)
    /\ picked' = TRUE
    /\ pc' = "manual_input"
    /\ UNCHANGED <<args, mode, exit_code, stdout, mixer, downbeat_ready,
                   close_calls, play_errors, sound>>
    /\ UNCHANGED <<env, now, timing, preset, typed>>

\* input() returns a line: the loop returns on a quit word, else goes round
ManualInput ==
    /\ pc = "manual_input"
    /\ \E text \in Lines :
          /\ typed' = Some(text)
          /\ IF IsQuit(text)
             THEN Exit(0, {"stopped"}, TRUE)
             ELSE /\ pc' = "run_manual"
                  /\ UNCHANGED <<exit_code, stdout, mixer, close_calls>>
    /\ UNCHANGED <<args, mode, downbeat_ready, play_errors>>
    /\ UNCHANGED <<env, now, timing, preset, display>>

\* input() raises EOFError at the end of standard input
ManualEndOfInput ==
    /\ pc = "manual_input"
    /\ Exit(1, {"traceback"}, TRUE)
    /\ UNCHANGED <<args, mode, downbeat_ready, play_errors>>
    /\ UNCHANGED <<env, now, timing, preset, display, typed>>

\* ------------------------------------------------------------------------
\* The interrupt signal
\* ------------------------------------------------------------------------
InTry == pc \in {"dispatch", "run_manual", "manual_input", "run_auto", "run_preset"}

\* KeyboardInterrupt inside the try of main: farewell, finally, return
InterruptCaught ==
    /\ InTry
    /\ Exit(0, {"farewell"}, TRUE)
    /\ UNCHANGED <<args, mode, downbeat_ready, play_errors>>
    /\ UNCHANGED <<env, now, timing, preset, display, typed>>

\* KeyboardInterrupt before the try: nothing catches it
InterruptUncaught ==
    /\ pc \in {"import", "parse_args", "init_downbeat", "init_secondary"}
    /\ Exit(130, {"traceback"}, FALSE)
    /\ UNCHANGED <<args, mode, downbeat_ready, play_errors>>
    /\ UNCHANGED <<env, now, timing, preset, display, typed>>

Next ==
    \/ Import
    \/ ParseArgs
    \/ InitDownbeat
    \/ InitDownbeatFails
    \/ InitSecondary
    \/ InitSecondaryFails
    \/ EnterManual
    \/ EnterTimed
    \/ EnterTimedFails
    \/ Tick
    \/ AutoBeat
    \/ AutoBeatPlayFails
    \/ PresetBeat
    \/ PresetBeatPlayFails
    \/ FingerAutoTick
    \/ FingerAutoPlayFails
    \/ FingerPresetTick
    \/ FingerPresetPlayFails
    \/ ManualPrompt
    \/ ManualInput
    \/ ManualEndOfInput
    \/ InterruptCaught
    \/ InterruptUncaught

Spec == Init /\ [][Next]_vars

\* ========================================================================
\* Properties
\* ========================================================================

\* a token is a use of the flag: the flag itself (bare, or followed by a
\* separate value) or flag=value
IsFlagUse(tok, flag) == tok = flag \/ IsPrefixOf(flag \o <<"=">>, tok)
UsesFlag(cmd, flag) == \E k \in 1..Len(cmd) : IsFlagUse(cmd[k], flag)
PresetWithOthers ==
    /\ UsesFlag(argv, OPT_PRESET)
    /\ \E flag \in {OPT_AUTO, OPT_ACCIDENTALS, OPT_STRING, OPT_NOTE} :
          UsesFlag(argv, flag)

\* C1: a command line with --preset and any of --auto, --accidentals,
\* --string, --note (bare, with a separate value, or as flag=value) ends in
\* a usage error: parse_args never returns, the exit status is not zero and
\* no run mode is entered.
C1_PresetConflictRejected ==
    PresetWithOthers =>
        /\ mode = "none"
        /\ pc \in {"import", "parse_args", "exited"}
        /\ (pc = "exited" => Get(exit_code) # 0)

\* the notes of preset mode, pass after pass
CircleOfFifths ==
    << <<"F">>, <<"C">>, <<"G">>, <<"D">>, <<"A">>, <<"E">>, <<"B">> >>

\* C2: the d-th display of preset mode (d = 0, 1, ...) shows string
\* 1,2,...,6 in turn (each for four sub-beats in fretboard_trainer.py, for
\* one tick in fingerboard_trainer.py) and the note F, C, G, D, A, E, B, F,
\* ... of the pass it belongs to: the note changes only after string 6,
\* and the seventh change leads back to F.
C2_PresetSequence ==
    (mode = "preset" /\ shown > 0) =>
        LET d == shown - 1
            each == IF prog = "fretboard" THEN 4 ELSE 1
            str == ((d \div each) % 6) + 1
            pass == d \div (6 * each)
        IN  screen = Shows(str, CircleOfFifths[(pass % 7) + 1],
                           IF prog = "fretboard" THEN Some(d % 4) ELSE None)

\* the eighth pass of fretboard_trainer.py begins: string 1, note F again
C2_Witness ==
    /\ mode = "preset" /\ prog = "fretboard"
    /\ shown = 169
    /\ screen = Shows(1, <<"F">>, Some(0))

\* C3: with a string filter S in 1..6, every prompt choose_prompt returns,
\* and every prompt manual and auto mode display, has string S.
C3_StringFilter ==
    \A S \in 1..6 :
        (args.string = Some(S) /\ prompt # None) =>
            /\ Get(prompt).string = S
            /\ (mode \in {"manual", "auto"} /\ screen # None
                  => Get(screen).string = S)

\* auto mode with --string=3 and a random note is past its first beats
C3_Witness ==
    /\ prog = "fretboard" /\ mode = "auto"
    /\ args.string = Some(3) /\ args.note = None
    /\ beat_idx >= 2
    /\ prompt # None /\ Get(prompt).string = 3

\* C4 as stated: with a note filter N, every prompt has note N.
C4_NoteFilterAny ==
    (args.note # None /\ prompt # None) => Get(prompt).note = Get(args.note)

\* C4, amended: with a note filter N that is not the empty string, every
\* prompt choose_prompt returns, and every prompt displayed, has note N,
\* with or without --accidentals and whether or not N is a note of a pool.
C4_NoteFilter ==
    (args.note # None /\ Len(Get(args.note)) > 0 /\ prompt # None) =>
        /\ Get(prompt).note = Get(args.note)
        /\ (screen # None => Get(screen).note = Get(args.note))

\* the note filter "3", a note of no pool, has been applied
C4_Witness ==
    /\ args.note = Some(<<"3">>)
    /\ prompt # None /\ Get(prompt).note = <<"3">>
    /\ screen # None

\* a line that is a quit word in any letter case, with whitespace allowed
\* before and after it only
UpperLowerPairs ==
    { <<"Q", "q">>, <<"U", "u">>, <<"I", "i">>, <<"T", "t">>, <<"E", "e">>,
      <<"X", "x">> }
SameLetter(c, d) == c = d \/ <<c, d>> \in UpperLowerPairs
SpellsWord(text, a, b, word) ==
    /\ b - a + 1 = Len(word)
    /\ \A k \in 1..Len(word) : SameLetter(text[a + k - 1], word[k])
QuitLine(text) ==
    \E a, b \in 1..Len(text) :
        /\ a <= b
        /\ \A k \in 1..Len(text) : (k < a \/ k > b) => text[k] \in {" ", "\t"}
        /\ \E word \in { <<"q">>, <<"q", "u", "i", "t">>, <<"e", "x", "i", "t">> } :
              SpellsWord(text, a, b, word)

\* C5: in manual mode, when the line just read is a quit line the loop has
\* stopped (farewell "Stopped.", exit status 0); when it is any other line
\* the loop has not stopped because of it: the mode is still running unless
\* an interrupt or the end of the input ended it.
C5_ManualQuit ==
    (mode = "manual" /\ typed # None) =>
        IF QuitLine(Get(typed))
        THEN pc = "exited" /\ exit_code = Some(0) /\ "stopped" \in stdout
        ELSE /\ "stopped" \notin stdout
             /\ (pc = "exited" =>
                    "farewell" \in stdout \/ "traceback" \in stdout)

\* " QUIT " has been typed and the loop has stopped
C5_Witness ==
    /\ mode = "manual"
    /\ typed = Some(<<" ", "Q", "U", "I", "T", " ">>)
    /\ pc = "exited" /\ "stopped" \in stdout

\* C6: with a required sample file missing the process never gets past the
\* loading of the module: no argument is parsed, no audio is initialised,
\* no run mode is entered, and (unless an interrupt ends it first) it exits
\* with status 1 after printing the diagnostic.
C6_MissingAsset ==
    (~downbeat_exists \/ (prog = "fretboard" /\ ~secondary_exists)) =>
        /\ pc \in {"import", "exited"}
        /\ args = EmptyNamespace /\ "usage" \notin stdout
        /\ ~downbeat_ready /\ mixer = "uninit"
        /\ mode = "none"
        /\ (pc = "exited" /\ "traceback" \notin stdout =>
                exit_code = Some(1) /\ "file_not_found" \in stdout)

\* fretboard_trainer.py has exited for want of the secondary-beat file only
C6_Witness ==
    /\ prog = "fretboard" /\ downbeat_exists /\ ~secondary_exists
    /\ pc = "exited" /\ exit_code = Some(1)
    /\ "file_not_found" \in stdout

\* C7: once main has initialised audio (the downbeat sound is created), the
\* process does not end without a call of close, whether it ends by a quit
\* word, by an interrupt or by a failure while the second sound is created
\* or inside a run mode.
C7_CloseAlwaysRuns ==
    (downbeat_ready /\ pc = "exited") => close_calls > 0

\* what run_auto of fretboard_trainer.py shows after each beat
C8_AfterBeat ==
    (prog = "fretboard" /\ mode = "auto" /\ beat_idx > 0
       /\ "traceback" \notin stdout) =>
        LET b == (beat_idx - 1) % 4 IN
        /\ screen = Shows(Get(prompt).string, Get(prompt).note, Some(b))
        /\ sound = (IF b = 0 THEN "downbeat" ELSE "secondary")
        /\ picked = (b = 0)

\* C8: in run_auto of fretboard_trainer.py the k-th beat is sub-beat
\* k mod 4; sub-beat 0 calls choose_prompt and plays the downbeat sound;
\* sub-beats 1, 2, 3 do not call it, play the secondary sound and show the
\* pair of sub-beat 0 unchanged, with the beat indicator at the sub-beat.
C8_AutoCycle ==
    [][ /\ C8_AfterBeat'
        /\ (prog = "fretboard" /\ mode = "auto"
              /\ beat_idx' = beat_idx + 1 /\ beat_idx % 4 # 0)
             => /\ prompt' = prompt
                /\ Get(screen').string = Get(screen).string
                /\ Get(screen').note = Get(screen).note ]_vars

\* a whole cycle of four sub-beats with random string and note is over
C8_Witness ==
    /\ prog = "fretboard" /\ mode = "auto"
    /\ args.string = None /\ args.note = None
    /\ beat_idx = 4
    /\ screen # None /\ Get(screen).beat = Some(3)

\* C9: in the beat scheduler of fretboard_trainer.py, when a beat was
\* emitted later than the deadline of the beat after it (the loop was
\* delayed past the deadlines of both), the beat after it is not emitted in
\* a catch-up burst: it follows at least one period later.
C9_NoCatchUpBurst ==
    [][ (/\ prog = "fretboard" /\ pc \in {"run_auto", "run_preset"}
         /\ beat_idx' = beat_idx + 1
         /\ last_emit # None
         /\ Get(last_emit) > Target(start, beat_idx, period))
        => now' - Get(last_emit) >= period ]_vars

\* C10: a call of Ding.play that raises does not end the run mode: after it
\* the timed loop is still running, or has been ended by an interrupt.
C10_PlayFailureSwallowed ==
    play_errors > 0 =>
        pc \in {"run_auto", "run_preset"} \/ "farewell" \in stdout

====
